---------------------------- MODULE Spec2Model ----------------------------
(***************************************************************************)
(* Model of bip32template.BIP32Template: the streaming parser (parse and   *)
(* its nested closures), the validating constructor (__init__), and the    *)
(* query / serialisation operations (match, to_path, __eq__, __str__).     *)
(*                                                                         *)
(* Python integers are unbounded, TLC integers are 32-bit signed.  An      *)
(* index of the program is therefore held as a two-limb number             *)
(*     [hi |-> bits 31 and up, lo |-> the low 31 bits]                     *)
(* which stands for hi * 2^31 + lo.  Every comparison and every addition   *)
(* of the source is carried out exactly on that representation.            *)
(***************************************************************************)
EXTENDS Integers, Sequences, FiniteSets, TLC

(***************************************************************************)
(* Two-limb integers.                                                      *)
(***************************************************************************)
\* 0x7FFFFFFF, the largest value of the low limb (HARDENED_INDEX_MASK).
LoMax == 2147483647

W(hi, lo) == [hi |-> hi, lo |-> lo]
N(n) == W(0, n)

WLt(a, b) == a.hi < b.hi \/ (a.hi = b.hi /\ a.lo < b.lo)
WLe(a, b) == a = b \/ WLt(a, b)
WGt(a, b) == WLt(b, a)
WGe(a, b) == WLe(b, a)

\* a + b, with the carry out of the low limb.
WAdd(a, b) ==
    IF a.lo > LoMax - b.lo
    THEN W(a.hi + b.hi + 1, a.lo - (LoMax - b.lo) - 1)
    ELSE W(a.hi + b.hi, a.lo + b.lo)

\* a * 10  (= 8a + 2a)
WMul10(a) ==
    LET a2 == WAdd(a, a)
        a4 == WAdd(a2, a2)
        a8 == WAdd(a4, a4)
    IN  WAdd(a8, a2)

(***************************************************************************)
(* Module constants of bip32template/__init__.py.                          *)
(***************************************************************************)
HARDENED_INDEX_START == W(1, 0)
MAX_INDEX_VALUE == W(0, LoMax)
INVALID_INDEX == HARDENED_INDEX_START
HARDENED_MARKERS == <<"h", "'">>

\* x & HARDENED_INDEX_START /= 0 : bit 31 is the lowest bit of the high limb.
HardenedBit(x) == x.hi % 2 = 1
\* x & HARDENED_INDEX_MASK
Masked(x) == x.lo

(***************************************************************************)
(* Characters.  The input is a sequence of one-character strings; None is  *)
(* what the main loop holds once the iterator is exhausted.                *)
(***************************************************************************)
None == "None"
Digits == {"0", "1", "2", "3", "4", "5", "6", "7", "8", "9"}
isdigit(c) == c \in Digits

DigitValue(c) ==
    CASE c = "0" -> 0 [] c = "1" -> 1 [] c = "2" -> 2 [] c = "3" -> 3
      [] c = "4" -> 4 [] c = "5" -> 5 [] c = "6" -> 6 [] c = "7" -> 7
      [] c = "8" -> 8 [] c = "9" -> 9

DigitChar(d) ==
    CASE d = 0 -> "0" [] d = 1 -> "1" [] d = 2 -> "2" [] d = 3 -> "3"
      [] d = 4 -> "4" [] d = 5 -> "5" [] d = 6 -> "6" [] d = 7 -> "7"
      [] d = 8 -> "8" [] d = 9 -> "9"

\* str(n) for an int n >= 0 : the decimal digits, most significant first.
RECURSIVE Decimal(_)
Decimal(n) ==
    IF n < 10 THEN <<DigitChar(n)>>
    ELSE Append(Decimal(n \div 10), DigitChar(n % 10))

Range(s) == {s[i] : i \in 1..Len(s)}
Last(s) == s[Len(s)]

(***************************************************************************)
(* Exceptions.  A raised exception is recorded in the fields exc and       *)
(* exc_position of the record of locals; NoPosition is position = None.    *)
(***************************************************************************)
NoExc == "NoExc"
NoPosition == 0

\* err(exc): the exception carries the current position.
err(L, exc) == [L EXCEPT !.exc = exc, !.exc_position = L.position]

\* a failing assert statement / raise AssertionError
AssertFail(L) == [L EXCEPT !.exc = "AssertionError", !.exc_position = NoPosition]

Raised(L) == L.exc # NoExc

get_num_ranges_in_last_section(L) ==
    IF L.section_started THEN 0 ELSE Len(Last(L.sections))

raise_unexpected_char_error(L, c) ==
    IF c = None THEN err(L, "UnexpectedFinish")
    ELSE IF c \in {" ", "\t"} THEN err(L, "UnexpectedSpace")
    ELSE IF c \in {"m", "/", "[", "]", "-", ",", "*", "h", "'"} \/ isdigit(c)
         THEN err(L, "UnexpectedCharacter")
    ELSE err(L, "InvalidCharacter")

\* process_digit: the new index_value, or the exception.
\* process_digit with >= for > on line 292.
process_digit_Mut(L, c) ==
    IF L.index_value = N(0) THEN err(L, "IndexHasLeadingZero")
    ELSE LET d == N(DigitValue(c))
             v == IF L.index_value # INVALID_INDEX
                  THEN WAdd(WMul10(L.index_value), d)
                  ELSE d
         IN  IF WGe(v, MAX_INDEX_VALUE) THEN err(L, "IndexTooBig")
             ELSE [L EXCEPT !.index_value = v]

process_digit(L, c) ==
    IF L.index_value = N(0) THEN err(L, "IndexHasLeadingZero")
    ELSE LET d == N(DigitValue(c))
             v == IF L.index_value # INVALID_INDEX
                  THEN WAdd(WMul10(L.index_value), d)
                  ELSE d
         IN  IF WGt(v, MAX_INDEX_VALUE) THEN err(L, "IndexTooBig")
             ELSE [L EXCEPT !.index_value = v]

\* finalize_range: the locals afterwards (L) and the returned flag (ret).
finalize_range(L) ==
    IF L.range_start # INVALID_INDEX
    THEN IF L.range_end # INVALID_INDEX
         THEN IF L.range_end = L.index_value
              THEN [L |-> L, ret |-> FALSE]
              ELSE [L |-> AssertFail(L), ret |-> FALSE]
         ELSE [L |-> [L EXCEPT !.range_end = L.index_value], ret |-> TRUE]
    ELSE IF L.range_end # INVALID_INDEX
         THEN [L |-> AssertFail(L), ret |-> FALSE]
    ELSE [L |-> [L EXCEPT !.range_start = L.index_value,
                          !.range_end = L.index_value],
          ret |-> FALSE]

\* apply_new_range without the merge of a range that touches the last one.
apply_new_range_Mut(L) ==
    IF ~(WLe(L.range_start, MAX_INDEX_VALUE) /\ WLe(L.range_end, MAX_INDEX_VALUE))
    THEN AssertFail(L)
    ELSE
      LET reset(M) == [M EXCEPT !.range_start = INVALID_INDEX,
                                !.range_end = INVALID_INDEX]
      IN
      IF L.section_started
      THEN reset([L EXCEPT
                    !.sections = Append(@, <<(<<L.range_start, L.range_end>>)>>),
                    !.section_started = FALSE])
      ELSE reset([L EXCEPT !.sections[Len(L.sections)] =
                               Append(@, <<L.range_start, L.range_end>>)])

apply_new_range(L) ==
    IF ~(WLe(L.range_start, MAX_INDEX_VALUE) /\ WLe(L.range_end, MAX_INDEX_VALUE))
    THEN AssertFail(L)
    ELSE
      LET reset(M) == [M EXCEPT !.range_start = INVALID_INDEX,
                                !.range_end = INVALID_INDEX]
      IN
      IF L.section_started
      THEN reset([L EXCEPT
                    !.sections = Append(@, <<(<<L.range_start, L.range_end>>)>>),
                    !.section_started = FALSE])
      ELSE
        LET last == Last(L.sections)
            prev_range_start == Last(last)[1]
            prev_range_end == Last(last)[2]
            n == Len(L.sections)
        IN
        IF ~(WLe(prev_range_start, MAX_INDEX_VALUE)
               /\ WLe(prev_range_end, MAX_INDEX_VALUE))
        THEN AssertFail(L)
        ELSE IF WAdd(prev_range_end, N(1)) = L.range_start
        THEN reset([L EXCEPT !.sections[n][Len(last)] =
                                 <<prev_range_start, L.range_end>>])
        ELSE reset([L EXCEPT !.sections[n] =
                                 Append(@, <<L.range_start, L.range_end>>)])

\* check_range_correctness without its last test (lines 371-373).
check_range_correctness_Mut(L, was_open, is_last, cfg) ==
    IF ~(WLe(L.range_start, MAX_INDEX_VALUE) /\ WLe(L.range_end, MAX_INDEX_VALUE))
    THEN AssertFail(L)
    ELSE IF L.range_start = N(0) /\ L.range_end = MAX_INDEX_VALUE
    THEN err(L, "RangeEqualsWildcard")
    ELSE
      LET num_ranges == get_num_ranges_in_last_section(L) IN
      IF L.range_start = L.range_end /\ is_last /\ num_ranges = 0
      THEN err(L, "SingleIndexAsRange")
      ELSE IF L.range_start = L.range_end /\ was_open
      THEN err(L, "RangeStartEqualsEnd")
      ELSE IF WGt(L.range_start, L.range_end)
      THEN err(L, "RangeOrderBad")
      ELSE IF num_ranges > 0
      THEN
        LET prev_range_start == Last(Last(L.sections))[1]
            prev_range_end == Last(Last(L.sections))[2]
        IN
        IF ~(WLe(prev_range_start, MAX_INDEX_VALUE)
               /\ WLe(prev_range_end, MAX_INDEX_VALUE))
        THEN AssertFail(L)
        ELSE IF cfg.is_format_unambiguous
                  /\ WAdd(prev_range_end, N(1)) = L.range_start
        THEN err(L, "RangeStartNextToPrevious")
        ELSE IF WGt(prev_range_start, L.range_start)
        THEN err(L, "RangeOrderBad")
        ELSE L
      ELSE L

\* check_range_correctness without the test of lines 362-363.
check_range_correctness_MutAdj(L, was_open, is_last, cfg) ==
    IF ~(WLe(L.range_start, MAX_INDEX_VALUE) /\ WLe(L.range_end, MAX_INDEX_VALUE))
    THEN AssertFail(L)
    ELSE IF L.range_start = N(0) /\ L.range_end = MAX_INDEX_VALUE
    THEN err(L, "RangeEqualsWildcard")
    ELSE
      LET num_ranges == get_num_ranges_in_last_section(L) IN
      IF L.range_start = L.range_end /\ is_last /\ num_ranges = 0
      THEN err(L, "SingleIndexAsRange")
      ELSE IF L.range_start = L.range_end /\ was_open
      THEN err(L, "RangeStartEqualsEnd")
      ELSE IF WGt(L.range_start, L.range_end)
      THEN err(L, "RangeOrderBad")
      ELSE IF num_ranges > 0
      THEN
        LET prev_range_start == Last(Last(L.sections))[1]
            prev_range_end == Last(Last(L.sections))[2]
        IN
        IF ~(WLe(prev_range_start, MAX_INDEX_VALUE)
               /\ WLe(prev_range_end, MAX_INDEX_VALUE))
        THEN AssertFail(L)
        ELSE IF WGt(prev_range_start, L.range_start)
        THEN err(L, "RangeOrderBad")
        ELSE IF WLe(prev_range_start, L.range_start)
                  /\ WGe(prev_range_end, L.range_start)
        THEN err(L, "RangesIntersect")
        ELSE L
      ELSE L

\* check_range_correctness without the test of lines 352-353.
check_range_correctness_MutSingle(L, was_open, is_last, cfg) ==
    IF ~(WLe(L.range_start, MAX_INDEX_VALUE) /\ WLe(L.range_end, MAX_INDEX_VALUE))
    THEN AssertFail(L)
    ELSE IF L.range_start = N(0) /\ L.range_end = MAX_INDEX_VALUE
    THEN err(L, "RangeEqualsWildcard")
    ELSE
      LET num_ranges == get_num_ranges_in_last_section(L) IN
      IF L.range_start = L.range_end /\ was_open
      THEN err(L, "RangeStartEqualsEnd")
      ELSE IF WGt(L.range_start, L.range_end)
      THEN err(L, "RangeOrderBad")
      ELSE IF num_ranges > 0
      THEN
        LET prev_range_start == Last(Last(L.sections))[1]
            prev_range_end == Last(Last(L.sections))[2]
        IN
        IF ~(WLe(prev_range_start, MAX_INDEX_VALUE)
               /\ WLe(prev_range_end, MAX_INDEX_VALUE))
        THEN AssertFail(L)
        ELSE IF cfg.is_format_unambiguous
                  /\ WAdd(prev_range_end, N(1)) = L.range_start
        THEN err(L, "RangeStartNextToPrevious")
        ELSE IF WGt(prev_range_start, L.range_start)
        THEN err(L, "RangeOrderBad")
        ELSE IF WLe(prev_range_start, L.range_start)
                  /\ WGe(prev_range_end, L.range_start)
        THEN err(L, "RangesIntersect")
        ELSE L
      ELSE L

check_range_correctness(L, was_open, is_last, cfg) ==
    IF ~(WLe(L.range_start, MAX_INDEX_VALUE) /\ WLe(L.range_end, MAX_INDEX_VALUE))
    THEN AssertFail(L)
    ELSE IF L.range_start = N(0) /\ L.range_end = MAX_INDEX_VALUE
    THEN err(L, "RangeEqualsWildcard")
    ELSE
      LET num_ranges == get_num_ranges_in_last_section(L) IN
      IF L.range_start = L.range_end /\ is_last /\ num_ranges = 0
      THEN err(L, "SingleIndexAsRange")
      ELSE IF L.range_start = L.range_end /\ was_open
      THEN err(L, "RangeStartEqualsEnd")
      ELSE IF WGt(L.range_start, L.range_end)
      THEN err(L, "RangeOrderBad")
      ELSE IF num_ranges > 0
      THEN
        LET prev_range_start == Last(Last(L.sections))[1]
            prev_range_end == Last(Last(L.sections))[2]
        IN
        IF ~(WLe(prev_range_start, MAX_INDEX_VALUE)
               /\ WLe(prev_range_end, MAX_INDEX_VALUE))
        THEN AssertFail(L)
        ELSE IF cfg.is_format_unambiguous
                  /\ WAdd(prev_range_end, N(1)) = L.range_start
        THEN err(L, "RangeStartNextToPrevious")
        ELSE IF WGt(prev_range_start, L.range_start)
        THEN err(L, "RangeOrderBad")
        ELSE IF WLe(prev_range_start, L.range_start)
                  /\ WGe(prev_range_end, L.range_start)
        THEN err(L, "RangesIntersect")
        ELSE L
      ELSE L

\* is_section_hardened with the comparison of the first start turned round.
is_section_hardened_Mut(section) ==
    IF section = <<>> THEN "assert"
    ELSE
      LET is_hardened == WLt(section[1][1], HARDENED_INDEX_START)
          ok(r) == IF WGe(r[1], HARDENED_INDEX_START)
                   THEN WGe(r[2], HARDENED_INDEX_START) /\ is_hardened
                   ELSE WLt(r[2], HARDENED_INDEX_START) /\ ~is_hardened
      IN  IF \A i \in 1..Len(section) : ok(section[i])
          THEN (IF is_hardened THEN "hardened" ELSE "unhardened")
          ELSE "assert"

\* is_section_hardened: "assert" when one of its assertions fails.
is_section_hardened(section) ==
    IF section = <<>> THEN "assert"
    ELSE
      LET is_hardened == WGe(section[1][1], HARDENED_INDEX_START)
          ok(r) == IF WGe(r[1], HARDENED_INDEX_START)
                   THEN WGe(r[2], HARDENED_INDEX_START) /\ is_hardened
                   ELSE WLt(r[2], HARDENED_INDEX_START) /\ ~is_hardened
      IN  IF \A i \in 1..Len(section) : ok(section[i])
          THEN (IF is_hardened THEN "hardened" ELSE "unhardened")
          ELSE "assert"

\* harden_last_section that offsets the start of each range only.
harden_last_section_Mut(L) ==
    LET n == Len(L.sections)
        last_section == L.sections[n]
    IN
    [L EXCEPT !.sections[n] =
        [i \in 1..Len(last_section) |->
            <<WAdd(last_section[i][1], HARDENED_INDEX_START),
              last_section[i][2]>>]]

harden_last_section(L) ==
    LET n == Len(L.sections)
        last_section == L.sections[n]
    IN
    IF \E i \in 1..Len(last_section) :
          ~(WLe(last_section[i][1], MAX_INDEX_VALUE)
              /\ WLe(last_section[i][2], MAX_INDEX_VALUE))
    THEN AssertFail(L)
    ELSE [L EXCEPT !.sections[n] =
            [i \in 1..Len(last_section) |->
                <<WAdd(last_section[i][1], HARDENED_INDEX_START),
                  WAdd(last_section[i][2], HARDENED_INDEX_START)>>]]


\* return (new_state, ret_state) from do_fsm
Return(L, new_state, ret_state) ==
    [L EXCEPT !.new_state = new_state, !.ret_state = ret_state]

\* SECTION_START with the length test of line 428 written as on line 441.
fsm_SECTION_START_Mut(L0, c, cfg) ==
    LET L == [L0 EXCEPT !.section_started = TRUE] IN
    IF c = None
    THEN IF L.sections = <<>> THEN err(L, "PathEmpty")
         ELSE err(L, "UnexpectedSlash")
    ELSE IF ~cfg.is_format_onlypath /\ c \in {"[", "*"}
              /\ Len(L.sections) = cfg.max_sections
    THEN err(L, "PathTooLong")
    ELSE IF ~cfg.is_format_onlypath /\ c = "["
    THEN Return([L EXCEPT !.index_value = INVALID_INDEX],
                "VALUE", "RANGE_WITHIN_SECTION")
    ELSE IF ~cfg.is_format_onlypath /\ c = "*"
    THEN Return([L EXCEPT !.range_start = N(0),
                          !.index_value = MAX_INDEX_VALUE],
                "SECTION_END", None)
    ELSE IF c = "/" THEN err(L, "UnexpectedSlash")
    ELSE IF isdigit(c)
    THEN LET L1 == process_digit(L, c) IN
         IF Raised(L1) THEN L1
         ELSE IF Len(L1.sections) > cfg.max_sections
         THEN err(L1, "PathTooLong")
         ELSE Return(L1, "VALUE", "SECTION_END")
    ELSE raise_unexpected_char_error(L, c)

\* SECTION_START in which "*" sets range_start to 1 (line 419).
fsm_SECTION_START_MutStar(L0, c, cfg) ==
    LET L == [L0 EXCEPT !.section_started = TRUE] IN
    IF c = None
    THEN IF L.sections = <<>> THEN err(L, "PathEmpty")
         ELSE err(L, "UnexpectedSlash")
    ELSE IF ~cfg.is_format_onlypath /\ c \in {"[", "*"}
              /\ Len(L.sections) = cfg.max_sections
    THEN err(L, "PathTooLong")
    ELSE IF ~cfg.is_format_onlypath /\ c = "["
    THEN Return([L EXCEPT !.index_value = INVALID_INDEX],
                "VALUE", "RANGE_WITHIN_SECTION")
    ELSE IF ~cfg.is_format_onlypath /\ c = "*"
    THEN Return([L EXCEPT !.range_start = N(1),
                          !.index_value = MAX_INDEX_VALUE],
                "SECTION_END", None)
    ELSE IF c = "/" THEN err(L, "UnexpectedSlash")
    ELSE IF isdigit(c)
    THEN LET L1 == process_digit(L, c) IN
         IF Raised(L1) THEN L1
         ELSE IF Len(L1.sections) = cfg.max_sections
         THEN err(L1, "PathTooLong")
         ELSE Return(L1, "VALUE", "SECTION_END")
    ELSE raise_unexpected_char_error(L, c)

\* SECTION_START with the test of line 428 moved under the test of line 412.
fsm_SECTION_START_MutOnly(L0, c, cfg) ==
    LET L == [L0 EXCEPT !.section_started = TRUE] IN
    IF c = None
    THEN IF L.sections = <<>> THEN err(L, "PathEmpty")
         ELSE err(L, "UnexpectedSlash")
    ELSE IF ~cfg.is_format_onlypath /\ c \in {"[", "*"}
              /\ Len(L.sections) = cfg.max_sections
    THEN err(L, "PathTooLong")
    ELSE IF ~cfg.is_format_onlypath /\ c = "["
    THEN Return([L EXCEPT !.index_value = INVALID_INDEX],
                "VALUE", "RANGE_WITHIN_SECTION")
    ELSE IF ~cfg.is_format_onlypath /\ c = "*"
    THEN Return([L EXCEPT !.range_start = N(0),
                          !.index_value = MAX_INDEX_VALUE],
                "SECTION_END", None)
    ELSE IF c = "/" THEN err(L, "UnexpectedSlash")
    ELSE IF isdigit(c)
    THEN LET L1 == process_digit(L, c) IN
         IF Raised(L1) THEN L1
         ELSE IF ~cfg.is_format_onlypath
                   /\ Len(L1.sections) = cfg.max_sections
         THEN err(L1, "PathTooLong")
         ELSE Return(L1, "VALUE", "SECTION_END")
    ELSE raise_unexpected_char_error(L, c)

fsm_SECTION_START(L0, c, cfg) ==
    LET L == [L0 EXCEPT !.section_started = TRUE] IN
    IF c = None
    THEN IF L.sections = <<>> THEN err(L, "PathEmpty")
         ELSE err(L, "UnexpectedSlash")
    ELSE IF ~cfg.is_format_onlypath /\ c \in {"[", "*"}
              /\ Len(L.sections) = cfg.max_sections
    THEN err(L, "PathTooLong")
    ELSE IF ~cfg.is_format_onlypath /\ c = "["
    THEN Return([L EXCEPT !.index_value = INVALID_INDEX],
                "VALUE", "RANGE_WITHIN_SECTION")
    ELSE IF ~cfg.is_format_onlypath /\ c = "*"
    THEN Return([L EXCEPT !.range_start = N(0),
                          !.index_value = MAX_INDEX_VALUE],
                "SECTION_END", None)
    ELSE IF c = "/" THEN err(L, "UnexpectedSlash")
    ELSE IF isdigit(c)
    THEN LET L1 == process_digit(L, c) IN
         IF Raised(L1) THEN L1
         ELSE IF Len(L1.sections) = cfg.max_sections
         THEN err(L1, "PathTooLong")
         ELSE Return(L1, "VALUE", "SECTION_END")
    ELSE raise_unexpected_char_error(L, c)

fsm_NEXT_SECTION(L, c, cfg) ==
    IF L.ret_state # None \/ L.index_value # INVALID_INDEX THEN AssertFail(L)
    ELSE IF c = None
    THEN IF Len(L.sections) > cfg.max_sections THEN err(L, "PathTooLong")
         ELSE Return(L, "SUCCESS", None)
    ELSE IF c = "/" THEN Return(L, "SECTION_START", None)
    ELSE raise_unexpected_char_error(L, c)

\* Lines 470-471: the test made on "," before the range is stored.
section_is_full_Mut(L, cfg) ==
    get_num_ranges_in_last_section(L) = cfg.max_ranges_per_section

section_is_full(L, cfg) ==
    get_num_ranges_in_last_section(L) = cfg.max_ranges_per_section - 1

\* RANGE_WITHIN_SECTION that keeps index_value on "-" (line 466 dropped).
fsm_RANGE_WITHIN_SECTION_Mut(L, c, cfg) ==
    IF cfg.is_format_onlypath THEN AssertFail(L)
    ELSE IF c = None THEN err(L, "UnexpectedFinish")
    ELSE IF L.index_value = INVALID_INDEX
    THEN IF c = " " THEN err(L, "UnexpectedSpace")
         ELSE err(L, "DigitExpected")
    ELSE IF c = "-"
    THEN IF L.range_start # INVALID_INDEX
         THEN raise_unexpected_char_error(L, c)
         ELSE Return([L EXCEPT !.range_start = L.index_value],
                     "VALUE", "RANGE_WITHIN_SECTION")
    ELSE IF c = ","
    THEN IF section_is_full(L, cfg)
         THEN err(L, "PathSectionTooLong")
         ELSE
           LET f == finalize_range(L) IN
           IF Raised(f.L) THEN f.L
           ELSE
             LET L1 == check_range_correctness(f.L, f.ret, FALSE, cfg) IN
             IF Raised(L1) THEN L1
             ELSE
               LET L2 == apply_new_range(L1) IN
               IF Raised(L2) THEN L2
               ELSE Return([L2 EXCEPT !.index_value = INVALID_INDEX],
                           "VALUE", "RANGE_WITHIN_SECTION")
    ELSE IF c = "]"
    THEN LET f == finalize_range(L) IN
         IF Raised(f.L) THEN f.L
         ELSE
           LET L1 == check_range_correctness(f.L, f.ret, TRUE, cfg) IN
           IF Raised(L1) THEN L1
           ELSE Return(L1, "SECTION_END", None)
    ELSE raise_unexpected_char_error(L, c)

fsm_RANGE_WITHIN_SECTION(L, c, cfg) ==
    IF cfg.is_format_onlypath THEN AssertFail(L)
    ELSE IF c = None THEN err(L, "UnexpectedFinish")
    ELSE IF L.index_value = INVALID_INDEX
    THEN IF c = " " THEN err(L, "UnexpectedSpace")
         ELSE err(L, "DigitExpected")
    ELSE IF c = "-"
    THEN IF L.range_start # INVALID_INDEX
         THEN raise_unexpected_char_error(L, c)
         ELSE Return([L EXCEPT !.range_start = L.index_value,
                               !.index_value = INVALID_INDEX],
                     "VALUE", "RANGE_WITHIN_SECTION")
    ELSE IF c = ","
    THEN IF section_is_full(L, cfg)
         THEN err(L, "PathSectionTooLong")
         ELSE
           LET f == finalize_range(L) IN
           IF Raised(f.L) THEN f.L
           ELSE
             LET L1 == check_range_correctness(f.L, f.ret, FALSE, cfg) IN
             IF Raised(L1) THEN L1
             ELSE
               LET L2 == apply_new_range(L1) IN
               IF Raised(L2) THEN L2
               ELSE Return([L2 EXCEPT !.index_value = INVALID_INDEX],
                           "VALUE", "RANGE_WITHIN_SECTION")
    ELSE IF c = "]"
    THEN LET f == finalize_range(L) IN
         IF Raised(f.L) THEN f.L
         ELSE
           LET L1 == check_range_correctness(f.L, f.ret, TRUE, cfg) IN
           IF Raised(L1) THEN L1
           ELSE Return(L1, "SECTION_END", None)
    ELSE raise_unexpected_char_error(L, c)

\* SECTION_END that leaves accepted_hardened_markers as it is (lines 503-504
\* dropped).
fsm_SECTION_END_Mut(L, c, cfg) ==
    IF L.index_value = INVALID_INDEX THEN AssertFail(L)
    ELSE IF c = None /\ Len(L.sections) = cfg.max_sections
    THEN err(L, "PathTooLong")
    ELSE IF c = "/" \/ c = None
    THEN LET f == finalize_range(L) IN
         IF Raised(f.L) THEN f.L
         ELSE
           LET L1 == apply_new_range(f.L) IN
           IF Raised(L1) THEN L1
           ELSE Return([L1 EXCEPT !.index_value = INVALID_INDEX],
                       IF c = None THEN "SUCCESS" ELSE "SECTION_START", None)
    ELSE IF c \in L.accepted_hardened_markers
    THEN LET La == L
             f == finalize_range(La)
         IN
         IF Raised(f.L) THEN f.L
         ELSE
           LET L1 == apply_new_range(f.L) IN
           IF Raised(L1) THEN L1
           ELSE
             LET prev == IF Len(L1.sections) > 1
                         THEN is_section_hardened(
                                  L1.sections[Len(L1.sections) - 1])
                         ELSE "hardened"
             IN
             IF prev = "assert" THEN AssertFail(L1)
             ELSE IF prev = "unhardened"
             THEN err(L1, "GotHardenedAfterUnhardened")
             ELSE
               LET L2 == harden_last_section(L1) IN
               IF Raised(L2) THEN L2
               ELSE Return([L2 EXCEPT !.index_value = INVALID_INDEX],
                           "NEXT_SECTION", None)
    ELSE IF c \in Range(cfg.hardened_markers)
    THEN err(L, "UnexpectedHardenedMarker")
    ELSE raise_unexpected_char_error(L, c)

\* SECTION_END that answers "/" with SUCCESS as it does the end of the input
\* (line 496).
fsm_SECTION_END_MutSuccess(L, c, cfg) ==
    IF L.index_value = INVALID_INDEX THEN AssertFail(L)
    ELSE IF c = None /\ Len(L.sections) = cfg.max_sections
    THEN err(L, "PathTooLong")
    ELSE IF c = "/" \/ c = None
    THEN LET f == finalize_range(L) IN
         IF Raised(f.L) THEN f.L
         ELSE
           LET L1 == apply_new_range(f.L) IN
           IF Raised(L1) THEN L1
           ELSE Return([L1 EXCEPT !.index_value = INVALID_INDEX],
                       "SUCCESS", None)
    ELSE IF c \in L.accepted_hardened_markers
    THEN LET La == [L EXCEPT !.accepted_hardened_markers = {c}]
             f == finalize_range(La)
         IN
         IF Raised(f.L) THEN f.L
         ELSE
           LET L1 == apply_new_range(f.L) IN
           IF Raised(L1) THEN L1
           ELSE
             LET prev == IF Len(L1.sections) > 1
                         THEN is_section_hardened(
                                  L1.sections[Len(L1.sections) - 1])
                         ELSE "hardened"
             IN
             IF prev = "assert" THEN AssertFail(L1)
             ELSE IF prev = "unhardened"
             THEN err(L1, "GotHardenedAfterUnhardened")
             ELSE
               LET L2 == harden_last_section(L1) IN
               IF Raised(L2) THEN L2
               ELSE Return([L2 EXCEPT !.index_value = INVALID_INDEX],
                           "NEXT_SECTION", None)
    ELSE IF c \in Range(cfg.hardened_markers)
    THEN err(L, "UnexpectedHardenedMarker")
    ELSE raise_unexpected_char_error(L, c)

\* SECTION_END that leaves index_value as it is after a hardened marker
\* (line 515 left out).
fsm_SECTION_END_MutKeep(L, c, cfg) ==
    IF L.index_value = INVALID_INDEX THEN AssertFail(L)
    ELSE IF c = None /\ Len(L.sections) = cfg.max_sections
    THEN err(L, "PathTooLong")
    ELSE IF c = "/" \/ c = None
    THEN LET f == finalize_range(L) IN
         IF Raised(f.L) THEN f.L
         ELSE
           LET L1 == apply_new_range(f.L) IN
           IF Raised(L1) THEN L1
           ELSE Return([L1 EXCEPT !.index_value = INVALID_INDEX],
                       IF c = None THEN "SUCCESS" ELSE "SECTION_START", None)
    ELSE IF c \in L.accepted_hardened_markers
    THEN LET La == [L EXCEPT !.accepted_hardened_markers = {c}]
             f == finalize_range(La)
         IN
         IF Raised(f.L) THEN f.L
         ELSE
           LET L1 == apply_new_range(f.L) IN
           IF Raised(L1) THEN L1
           ELSE
             LET prev == IF Len(L1.sections) > 1
                         THEN is_section_hardened(
                                  L1.sections[Len(L1.sections) - 1])
                         ELSE "hardened"
             IN
             IF prev = "assert" THEN AssertFail(L1)
             ELSE IF prev = "unhardened"
             THEN err(L1, "GotHardenedAfterUnhardened")
             ELSE
               LET L2 == harden_last_section(L1) IN
               IF Raised(L2) THEN L2
               ELSE Return(L2, "NEXT_SECTION", None)
    ELSE IF c \in Range(cfg.hardened_markers)
    THEN err(L, "UnexpectedHardenedMarker")
    ELSE raise_unexpected_char_error(L, c)

fsm_SECTION_END(L, c, cfg) ==
    IF L.index_value = INVALID_INDEX THEN AssertFail(L)
    ELSE IF c = None /\ Len(L.sections) = cfg.max_sections
    THEN err(L, "PathTooLong")
    ELSE IF c = "/" \/ c = None
    THEN LET f == finalize_range(L) IN
         IF Raised(f.L) THEN f.L
         ELSE
           LET L1 == apply_new_range(f.L) IN
           IF Raised(L1) THEN L1
           ELSE Return([L1 EXCEPT !.index_value = INVALID_INDEX],
                       IF c = None THEN "SUCCESS" ELSE "SECTION_START", None)
    ELSE IF c \in L.accepted_hardened_markers
    THEN LET La == [L EXCEPT !.accepted_hardened_markers = {c}]
             f == finalize_range(La)
         IN
         IF Raised(f.L) THEN f.L
         ELSE
           LET L1 == apply_new_range(f.L) IN
           IF Raised(L1) THEN L1
           ELSE
             LET prev == IF Len(L1.sections) > 1
                         THEN is_section_hardened(
                                  L1.sections[Len(L1.sections) - 1])
                         ELSE "hardened"
             IN
             IF prev = "assert" THEN AssertFail(L1)
             ELSE IF prev = "unhardened"
             THEN err(L1, "GotHardenedAfterUnhardened")
             ELSE
               LET L2 == harden_last_section(L1) IN
               IF Raised(L2) THEN L2
               ELSE Return([L2 EXCEPT !.index_value = INVALID_INDEX],
                           "NEXT_SECTION", None)
    ELSE IF c \in Range(cfg.hardened_markers)
    THEN err(L, "UnexpectedHardenedMarker")
    ELSE raise_unexpected_char_error(L, c)

fsm_VALUE(L, c, cfg) ==
    IF c = None THEN AssertFail(L)
    ELSE LET L1 == process_digit(L, c) IN
         IF Raised(L1) THEN L1
         ELSE Return(L1, L1.state, L1.ret_state)

do_fsm(L, c, cfg) ==
    CASE L.state = "SECTION_START" -> fsm_SECTION_START(L, c, cfg)
      [] L.state = "NEXT_SECTION" -> fsm_NEXT_SECTION(L, c, cfg)
      [] L.state = "RANGE_WITHIN_SECTION" -> fsm_RANGE_WITHIN_SECTION(L, c, cfg)
      [] L.state = "SECTION_END" -> fsm_SECTION_END(L, c, cfg)
      [] L.state = "VALUE" -> fsm_VALUE(L, c, cfg)
      [] OTHER -> AssertFail(L)


(***************************************************************************)
(* BIP32Template.__init__.  The result is [exc, tpl]: tpl holds the fields *)
(* of the new object when exc = NoExc.                                     *)
(***************************************************************************)
NoTemplate == [sections |-> <<>>, is_partial |-> FALSE, hardened_marker |-> ""]

\* The checks made on one range r of a section (lines 191-206); prev_r is
\* <<>> for None.
\* init_check_range without the test of got_unhardened (lines 198-199).
init_check_range_Mut(r, prev_r, got_unhardened) ==
    LET start == r[1]
        end == r[2]
    IN
    IF WGt(start, end) THEN "RangeOrderBad"
    ELSE IF prev_r # <<>> /\ WGe(prev_r[2], start) THEN "RangesIntersect"
    ELSE IF WGe(start, HARDENED_INDEX_START)
    THEN IF WLt(end, HARDENED_INDEX_START) THEN "InconsistentRange"
         ELSE NoExc
    ELSE IF WGe(end, HARDENED_INDEX_START) THEN "InconsistentRange"
         ELSE NoExc

init_check_range(r, prev_r, got_unhardened) ==
    LET start == r[1]
        end == r[2]
    IN
    IF WGt(start, end) THEN "RangeOrderBad"
    ELSE IF prev_r # <<>> /\ WGe(prev_r[2], start) THEN "RangesIntersect"
    ELSE IF WGe(start, HARDENED_INDEX_START)
    THEN IF got_unhardened THEN "GotHardenedAfterUnhardened"
         ELSE IF WLt(end, HARDENED_INDEX_START) THEN "InconsistentRange"
         ELSE NoExc
    ELSE IF WGe(end, HARDENED_INDEX_START) THEN "InconsistentRange"
         ELSE NoExc

\* The two nested for loops, from range j of section i on.
RECURSIVE init_loop(_, _, _, _, _, _)
init_loop(_sections, i, j, prev_r, got_hardened, got_unhardened) ==
    IF i > Len(_sections)
    THEN [exc |-> NoExc, got_hardened |-> got_hardened,
          got_unhardened |-> got_unhardened]
    ELSE IF j > Len(_sections[i])
    THEN init_loop(_sections, i + 1, 1, <<>>, got_hardened, got_unhardened)
    ELSE
      LET r == _sections[i][j]
          e == init_check_range(r, prev_r, got_unhardened)
          h == WGe(r[1], HARDENED_INDEX_START)
      IN
      IF e # NoExc
      THEN [exc |-> e, got_hardened |-> got_hardened \/ h,
            got_unhardened |-> got_unhardened]
      ELSE init_loop(_sections, i, j + 1, r,
                     got_hardened \/ h, got_unhardened \/ ~h)

\* The constructor storing is_partial only when it takes its parameters as
\* they are (line 224 moved into the branch of line 183).
BIP32Template_Mut(_sections, is_partial, hardened_marker, _accept_params_as_is) ==
    IF _sections = <<>> THEN [exc |-> "PathEmpty", tpl |-> NoTemplate]
    ELSE
      LET scan == IF _accept_params_as_is
                  THEN [exc |-> NoExc, got_hardened |-> TRUE,
                        got_unhardened |-> TRUE]
                  ELSE init_loop(_sections, 1, 1, <<>>, FALSE, FALSE)
          hm == IF ~_accept_params_as_is /\ ~scan.got_hardened
                THEN "" ELSE hardened_marker
      IN
      IF scan.exc # NoExc THEN [exc |-> scan.exc, tpl |-> NoTemplate]
      ELSE IF ~(scan.got_hardened \/ scan.got_unhardened)
      THEN [exc |-> "AssertionError", tpl |-> NoTemplate]
      ELSE IF hm # "" /\ hm \notin Range(HARDENED_MARKERS)
      THEN [exc |-> "UnexpectedHardenedMarker", tpl |-> NoTemplate]
      ELSE [exc |-> NoExc,
            tpl |-> [sections |-> _sections, is_partial |-> is_partial /\ _accept_params_as_is,
                     hardened_marker |-> hm]]

BIP32Template(_sections, is_partial, hardened_marker, _accept_params_as_is) ==
    IF _sections = <<>> THEN [exc |-> "PathEmpty", tpl |-> NoTemplate]
    ELSE
      LET scan == IF _accept_params_as_is
                  THEN [exc |-> NoExc, got_hardened |-> TRUE,
                        got_unhardened |-> TRUE]
                  ELSE init_loop(_sections, 1, 1, <<>>, FALSE, FALSE)
          hm == IF ~_accept_params_as_is /\ ~scan.got_hardened
                THEN "" ELSE hardened_marker
      IN
      IF scan.exc # NoExc THEN [exc |-> scan.exc, tpl |-> NoTemplate]
      ELSE IF ~(scan.got_hardened \/ scan.got_unhardened)
      THEN [exc |-> "AssertionError", tpl |-> NoTemplate]
      ELSE IF hm # "" /\ hm \notin Range(HARDENED_MARKERS)
      THEN [exc |-> "UnexpectedHardenedMarker", tpl |-> NoTemplate]
      ELSE [exc |-> NoExc,
            tpl |-> [sections |-> _sections, is_partial |-> is_partial,
                     hardened_marker |-> hm]]

(***************************************************************************)
(* BIP32Template.parse: the locals at entry, one iteration of the main     *)
(* loop, and the return through the constructor.                           *)
(***************************************************************************)
parse_locals(cfg) ==
    [is_partial |-> TRUE,
     state |-> "SECTION_START",
     ret_state |-> None,
     new_state |-> None,
     section_started |-> TRUE,
     index_value |-> INVALID_INDEX,
     range_start |-> INVALID_INDEX,
     range_end |-> INVALID_INDEX,
     accepted_hardened_markers |-> Range(cfg.hardened_markers),
     sections |-> <<>>,
     position |-> 0,
     exc |-> NoExc,
     exc_position |-> NoPosition,
     c |-> None,
     returned |-> FALSE,
     result |-> NoTemplate]

\* Lines 584-591: the loop was left by break.
parse_return(L) ==
    LET hardened_marker ==
            IF Cardinality(L.accepted_hardened_markers) = 1
            THEN CHOOSE m \in L.accepted_hardened_markers : TRUE
            ELSE ""
        made == BIP32Template(L.sections, L.is_partial, hardened_marker, TRUE)
    IN
    IF made.exc # NoExc
    THEN [L EXCEPT !.exc = made.exc, !.exc_position = NoPosition]
    ELSE [L EXCEPT !.returned = TRUE, !.result = made.tpl]

\* Lines 560-582: the iteration past the PrefixParserFSM logic.
loop_fsm(L0, c, cfg) ==
    LET leave == L0.state = "VALUE" /\ (c = None \/ ~isdigit(c)) IN
    IF leave /\ L0.ret_state = None THEN AssertFail(L0)
    ELSE
      LET L1 == IF leave
                THEN [L0 EXCEPT !.state = L0.ret_state, !.ret_state = None]
                ELSE L0
          L2 == do_fsm(L1, c, cfg)
      IN
      IF Raised(L2) THEN L2
      ELSE IF L2.ret_state = "VALUE" THEN AssertFail(L2)
      ELSE IF c = None
      THEN IF L2.new_state # "SUCCESS" THEN AssertFail(L2)
           ELSE parse_return(L2)
      ELSE IF L2.new_state = "SUCCESS" THEN parse_return(L2)
      ELSE [L2 EXCEPT !.state = L2.new_state]

\* The loop iteration without the test of lines 554-557 (position 2 after
\* "m").
loop_iteration_Mut(L0, c, cfg) ==
    LET L == [L0 EXCEPT !.c = c, !.position = @ + 1] IN
    IF c = "m" /\ L.position = 1
    THEN [L EXCEPT !.is_partial = FALSE]
    ELSE loop_fsm(L, c, cfg)

\* Lines 530-582: one iteration of `while True`, c being what next() gave
\* (None on StopIteration).
loop_iteration(L0, c, cfg) ==
    LET L == [L0 EXCEPT !.c = c, !.position = @ + 1] IN
    IF c = "m" /\ L.position = 1
    THEN [L EXCEPT !.is_partial = FALSE]
    ELSE IF ~L.is_partial /\ L.position = 2
    THEN IF c = "/" THEN L ELSE raise_unexpected_char_error(L, c)
    ELSE loop_fsm(L, c, cfg)

Running(L) == ~Raised(L) /\ ~L.returned

\* The loop going on after an exception was raised.
RECURSIVE parse_from_Mut(_, _, _, _)
parse_from_Mut(L, tpl, i, cfg) ==
    IF L.returned THEN L
    ELSE IF i > Len(tpl) THEN loop_iteration(L, None, cfg)
    ELSE parse_from_Mut(loop_iteration(L, tpl[i], cfg), tpl, i + 1, cfg)

\* parse(tpl) as a whole: the loop run over the characters tpl[i..] and
\* then over the end of the input.
RECURSIVE parse_from(_, _, _, _)
parse_from(L, tpl, i, cfg) ==
    IF ~Running(L) THEN L
    ELSE IF i > Len(tpl) THEN loop_iteration(L, None, cfg)
    ELSE parse_from(loop_iteration(L, tpl[i], cfg), tpl, i + 1, cfg)

parse(tpl, cfg) == parse_from(parse_locals(cfg), tpl, 1, cfg)

\* The loop run over the characters tpl[i..] only: what parse has come to
\* when next() has handed out the last of them.
RECURSIVE read_from(_, _, _, _)
read_from(L, tpl, i, cfg) ==
    IF ~Running(L) \/ i > Len(tpl) THEN L
    ELSE read_from(loop_iteration(L, tpl[i], cfg), tpl, i + 1, cfg)

(***************************************************************************)
(* match, to_path, __eq__, __str__                                         *)
(***************************************************************************)
\* match that looks at the first range of each section only.
match_Mut(self, path) ==
    IF Len(self.sections) # Len(path) THEN FALSE
    ELSE \A i \in 1..Len(self.sections) :
            \E k \in 1..Len(self.sections[i]) :
               LET range_start == self.sections[i][k][1]
                   range_end == self.sections[i][k][2]
               IN  k = 1 /\ ~(WLt(path[i], range_start) \/ WGt(path[i], range_end))

match(self, path) ==
    IF Len(self.sections) # Len(path) THEN FALSE
    ELSE \A i \in 1..Len(self.sections) :
            \E k \in 1..Len(self.sections[i]) :
               LET range_start == self.sections[i][k][1]
                   range_end == self.sections[i][k][2]
               IN  ~(WLt(path[i], range_start) \/ WGt(path[i], range_end))

\* to_path without the test of line 614 (start != end).
to_path_Mut(self) ==
    IF \E i \in 1..Len(self.sections) : Len(self.sections[i]) > 1
    THEN [exc |-> NoExc, none |-> TRUE, path |-> <<>>]
    ELSE [exc |-> NoExc, none |-> FALSE,
          path |-> [i \in 1..Len(self.sections) |-> self.sections[i][1][1]]]

\* to_path: [exc, none, path], none telling that None was returned.
to_path(self) ==
    LET bad(s) == Len(s) > 1 \/ s[1][1] # s[1][2]
        first == IF \E i \in 1..Len(self.sections) :
                       self.sections[i] = <<>> \/ bad(self.sections[i])
                 THEN CHOOSE i \in 1..Len(self.sections) :
                        /\ self.sections[i] = <<>> \/ bad(self.sections[i])
                        /\ \A k \in 1..(i - 1) :
                             self.sections[k] # <<>> /\ ~bad(self.sections[k])
                 ELSE 0
    IN
    IF first = 0
    THEN [exc |-> NoExc, none |-> FALSE,
          path |-> [i \in 1..Len(self.sections) |-> self.sections[i][1][1]]]
    ELSE IF self.sections[first] = <<>>
    THEN [exc |-> "IndexError", none |-> FALSE, path |-> <<>>]
    ELSE [exc |-> NoExc, none |-> TRUE, path |-> <<>>]

eq(self, other) ==
    IF self.is_partial # other.is_partial THEN FALSE
    ELSE self.sections = other.sections

\* str_range without the "*" spelling of lines 660-661.
str_range_Mut(r) ==
    LET start == Masked(r[1])
        end == Masked(r[2])
    IN
    IF start = end THEN [text |-> Decimal(start), dash |-> FALSE]
    ELSE [text |-> Decimal(start) \o <<"-">> \o Decimal(end), dash |-> TRUE]

\* The text of one range (lines 656-664): [text, dash].
str_range(r) ==
    LET start == Masked(r[1])
        end == Masked(r[2])
    IN
    IF start = end THEN [text |-> Decimal(start), dash |-> FALSE]
    ELSE IF start = 0 /\ end = Masked(MAX_INDEX_VALUE)
    THEN [text |-> <<"*">>, dash |-> FALSE]
    ELSE [text |-> Decimal(start) \o <<"-">> \o Decimal(end), dash |-> TRUE]

\* ",".join(r_parts) over the ranges k.. of section s
RECURSIVE str_join(_, _)
str_join(s, k) ==
    IF k > Len(s) THEN <<>>
    ELSE (IF k > 1 THEN <<",">> ELSE <<>>) \o str_range(s[k]).text
             \o str_join(s, k + 1)

\* The asserts of the loop over one section (lines 651-653, 666, 670).
str_section_ok(s, hardened_marker) ==
    /\ s # <<>>
    /\ \A k \in 1..Len(s) :
         /\ HardenedBit(s[k][1]) = HardenedBit(s[k][2])
         /\ HardenedBit(s[k][1]) = HardenedBit(s[1][1])
    /\ HardenedBit(s[Len(s)][1]) => hardened_marker # ""

\* str_section that brackets a section only when it has several ranges.
str_section_Mut(s, hardened_marker) ==
    LET got_many == Len(s) > 1
        hm == IF HardenedBit(s[Len(s)][1]) THEN <<hardened_marker>> ELSE <<>>
    IN  (IF got_many THEN <<"[">> ELSE <<>>) \o str_join(s, 1)
          \o (IF got_many THEN <<"]">> ELSE <<>>) \o hm

str_section(s, hardened_marker) ==
    LET got_many == Len(s) > 1 \/ \E k \in 1..Len(s) : str_range(s[k]).dash
        hm == IF HardenedBit(s[Len(s)][1]) THEN <<hardened_marker>> ELSE <<>>
    IN  (IF got_many THEN <<"[">> ELSE <<>>) \o str_join(s, 1)
          \o (IF got_many THEN <<"]">> ELSE <<>>) \o hm

\* "/".join(s_parts) over the sections i..
RECURSIVE str_sections(_, _)
str_sections(self, i) ==
    IF i > Len(self.sections) THEN <<>>
    ELSE (IF i > 1 \/ ~self.is_partial THEN <<"/">> ELSE <<>>)
           \o str_section(self.sections[i], self.hardened_marker)
           \o str_sections(self, i + 1)

\* __str__: [exc, s], s the characters of the returned string.
str(self) ==
    IF \E i \in 1..Len(self.sections) :
          ~str_section_ok(self.sections[i], self.hardened_marker)
    THEN [exc |-> "AssertionError", s |-> <<>>]
    ELSE [exc |-> NoExc,
          s |-> (IF self.is_partial THEN <<>> ELSE <<"m">>)
                  \o str_sections(self, 1)]


(***************************************************************************)
(* The state machine.                                                      *)
(*   options   the keyword arguments of the running parse call             *)
(*   frame     the locals of the running parse call (and, once it is       *)
(*             over, the exception raised or the template returned)        *)
(*   consumed  the characters next(tpl_iter) has handed out so far         *)
(*   pending   the characters the caller's iterable is known to hold next  *)
(*   budget    how many more tokens the iterable may be extended by        *)
(*   args      the arguments a caller has put together for a direct call   *)
(*             of the constructor: [sections, is_partial, hardened_marker] *)
(*   built     the outcome of that call: [exc, tpl]                        *)
(* A behaviour is one call of the API: either parse, fed character by      *)
(* character, or the constructor on a section list built range by range.   *)
(***************************************************************************)
VARIABLES options, frame, consumed, pending, budget, args, built

vars == <<options, frame, consumed, pending, budget, args, built>>

\* Bounds of the model.
MaxTokens == 5
MaxSectionsTop == 2
MaxRangesTop == 2
MaxCtorSections == 2
MaxCtorRanges == 2

DefaultOptions ==
    [max_sections |-> 16, max_ranges_per_section |-> 8,
     is_format_onlypath |-> FALSE, is_format_unambiguous |-> FALSE,
     hardened_markers |-> HARDENED_MARKERS]

\* A pair of markers a caller passes as hardened_markers instead of the
\* default one.
CustomMarkers == <<"x", "'">>

Options ==
    {DefaultOptions, [DefaultOptions EXCEPT !.is_format_unambiguous = TRUE],
     [DefaultOptions EXCEPT !.hardened_markers = CustomMarkers]}
    \cup {[DefaultOptions EXCEPT !.max_sections = s,
                                 !.max_ranges_per_section = r] :
            s \in 1..MaxSectionsTop, r \in 1..MaxRangesTop}
    \cup {[DefaultOptions EXCEPT !.max_sections = MaxSectionsTop,
                                 !.max_ranges_per_section = MaxRangesTop,
                                 !.is_format_onlypath = o,
                                 !.is_format_unambiguous = u] :
            o \in BOOLEAN, u \in BOOLEAN}

\* What the caller's iterable is extended by: one token at a time.
Tokens ==
    {<<"0">>, <<"1">>, <<"3">>, Decimal(LoMax),
     <<"m">>, <<"/">>, <<"[">>, <<"]">>, <<"-">>, <<",">>, <<"*">>,
     <<"h">>, <<"'">>, <<" ">>, <<"x">>}

\* The example of the documentation.
BoundaryExample ==
    <<"m","/","4","4","'","/","0","'","/","[","0","-","5","]","'","/","0","/","*">>

\* The error example of the documentation: "m/2147483648".
TooBigExample == <<"m","/">> \o SubSeq(Decimal(LoMax), 1, 9) \o <<"8">>

\* Inputs given whole: the examples of the documentation and of the tests.
Examples ==
    {BoundaryExample,
     TooBigExample,
     <<"[","0","-","2",",","3","-","5","]">>,
     <<"[","0","-","5","]">>,
     <<"[","0","-">> \o Decimal(LoMax) \o <<"]">>,
     <<"[","5","-","6",",","1","-","2","]">>,
     <<"0","'","/","[","0","-","1","]","h">>,
     <<"[","0",",","3","]","'">>,
     <<"[","0","-","5",",","6","-">> \o Decimal(LoMax) \o <<"]">>}

NotBuilt == [exc |-> "NotBuilt", tpl |-> NoTemplate]
NoArgs == [sections |-> <<>>, is_partial |-> FALSE, hardened_marker |-> ""]

\* The index values a caller builds ranges from, and the markers it passes.
CtorValues == {N(0), N(1), N(2), HARDENED_INDEX_START, W(1, 1)}
CtorMarkers == {"", "'", "x"}

\* len(s) summed over the sections
RECURSIVE NumRanges(_)
NumRanges(secs) ==
    IF secs = <<>> THEN 0 ELSE Len(Head(secs)) + NumRanges(Tail(secs))

Init ==
    /\ options \in Options
    /\ frame = parse_locals(options)
    /\ consumed = <<>>
    /\ \/ pending = <<>> /\ budget = MaxTokens
       \/ pending \in Examples /\ budget = 0
    /\ args = NoArgs
    /\ built = NotBuilt

\* The characters next(tpl_iter) may return, each with what then remains known.
Upcoming ==
    IF pending # <<>> THEN {pending}
    ELSE IF budget > 0 THEN Tokens
    ELSE {}

\* One iteration of the main loop on a character of the input.
LoopChar ==
    /\ Running(frame)
    /\ args.sections = <<>> /\ built = NotBuilt
    /\ \E tok \in Upcoming :
         /\ frame' = loop_iteration(frame, Head(tok), options)
         /\ consumed' = Append(consumed, Head(tok))
         /\ pending' = Tail(tok)
         /\ budget' = IF pending = <<>> THEN budget - 1 ELSE budget
    /\ UNCHANGED <<options, args, built>>

\* The iteration in which next(tpl_iter) raises StopIteration.
LoopEnd ==
    /\ Running(frame)
    /\ args.sections = <<>> /\ built = NotBuilt
    /\ pending = <<>>
    /\ frame' = loop_iteration(frame, None, options)
    /\ UNCHANGED <<options, consumed, pending, budget, args, built>>

\* No parse call is under way and the constructor has not been called.
Constructing ==
    /\ options = DefaultOptions
    /\ consumed = <<>> /\ pending = <<>> /\ frame.position = 0
    /\ built = NotBuilt

\* The caller opens a new (still empty) section of the argument.
ArgSection ==
    /\ Constructing
    /\ Len(args.sections) < MaxCtorSections
    /\ args' = [args EXCEPT !.sections = Append(@, <<>>)]
    /\ UNCHANGED <<options, frame, consumed, pending, budget, built>>

\* The caller appends a (start, end) tuple to the last section.
ArgRange ==
    /\ Constructing
    /\ args.sections # <<>>
    /\ NumRanges(args.sections) < MaxCtorRanges
    /\ \E start \in CtorValues, end \in CtorValues :
         args' = [args EXCEPT !.sections[Len(args.sections)] =
                                  Append(@, <<start, end>>)]
    /\ UNCHANGED <<options, frame, consumed, pending, budget, built>>

\* BIP32Template(sections, is_partial=..., hardened_marker=...)
Construct ==
    /\ Constructing
    /\ \E is_partial \in BOOLEAN, hardened_marker \in CtorMarkers :
         /\ args' = [args EXCEPT !.is_partial = is_partial,
                                 !.hardened_marker = hardened_marker]
         /\ built' = BIP32Template(args.sections, is_partial,
                                   hardened_marker, FALSE)
    /\ UNCHANGED <<options, frame, consumed, pending, budget>>

Next == LoopChar \/ LoopEnd \/ ArgSection \/ ArgRange \/ Construct

Spec == Init /\ [][Next]_vars

(***************************************************************************)
(* The text that has been read, as the grammar divides it.                 *)
(***************************************************************************)
Markers == Range(options.hardened_markers)

\* next() has raised StopIteration: the whole input has been read.
InputEnded == frame.position = Len(consumed) + 1

\* Where the path starts: after the prefix "m/", if there is one.
BodyStart(t) == IF t # <<>> /\ t[1] = "m" THEN 3 ELSE 1

\* The positions at which a section of the text starts.
SectionStarts(t) ==
    {i \in BodyStart(t)..Len(t) :
        t[i] # "/" /\ (i = BodyStart(t) \/ t[i - 1] = "/")}

NumSectionsInText(t) == Cardinality(SectionStarts(t))

\* The section that starts at k is closed: by "/" or by the end of the input.
SectionClosed(t, k) ==
    (\E i \in k..Len(t) : t[i] = "/") \/ InputEnded

\* The last position of the section that starts at k.
SectionLast(t, k) ==
    IF \E i \in k..Len(t) : t[i] = "/"
    THEN (CHOOSE i \in k..Len(t) :
            t[i] = "/" /\ \A j \in k..(i - 1) : t[j] # "/") - 1
    ELSE Len(t)

\* The position of the last "/" before position j (0: none).
LastSlash(t, j) ==
    IF \E i \in 1..(j - 1) : t[i] = "/"
    THEN CHOOSE i \in 1..(j - 1) :
            t[i] = "/" /\ \A k \in (i + 1)..(j - 1) : t[k] # "/"
    ELSE 0

\* The section before the one position j lies in exists and ends unhardened.
PrevSectionUnhardened(t, j) ==
    LET k == LastSlash(t, j) IN
    k > BodyStart(t) /\ t[k - 1] \notin Markers

IsHardened(section) ==
    section # <<>> /\ WGe(section[1][1], HARDENED_INDEX_START)
IsUnhardened(section) ==
    section # <<>> /\ WLt(section[1][1], HARDENED_INDEX_START)

\* No hardened section after an unhardened one.
HardenedFirst(secs) ==
    \A i \in 1..Len(secs) : \A j \in (i + 1)..Len(secs) :
        ~(IsUnhardened(secs[i]) /\ IsHardened(secs[j]))

(***************************************************************************)
(* The claims.                                                             *)
(***************************************************************************)

\* C1: round trip.  Whenever parse has returned a template, __str__ of it
\* gives a string that parse, called with the same options, accepts, and
\* the template it returns is equal (__eq__) to the first one.
C1_RoundTrip ==
    frame.returned =>
        LET text == str(frame.result)
            again == parse(text.s, options)
        IN  /\ text.exc = NoExc
            /\ again.returned
            /\ eq(again.result, frame.result)

\* A template was returned for an input that is not its own serialisation
\* (two ranges written apart were merged into one written with a dash).
C1_Witness ==
    /\ frame.returned
    /\ str(frame.result).s # consumed
    /\ \E i \in 1..Len(frame.result.sections) :
          frame.result.sections[i][1][1] # frame.result.sections[i][1][2]

\* C2 as stated: an input in which a hardened section is followed by a
\* (closed) unhardened section fails with GotHardenedAfterUnhardened at the
\* position of the first character of the unhardened section (inputs that
\* fail for another reason set aside).
C2_Original ==
    \A i \in 1..Len(consumed) :
        ( /\ consumed[i] \in Markers
          /\ i + 2 \in SectionStarts(consumed)
          /\ SectionClosed(consumed, i + 2)
          /\ consumed[SectionLast(consumed, i + 2)] \notin Markers
          /\ frame.exc \in {NoExc, "GotHardenedAfterUnhardened"} )
        => ( /\ frame.exc = "GotHardenedAfterUnhardened"
             /\ frame.exc_position = i + 2 )

\* C2 amended: an input in which an unhardened section is followed by a
\* section closed by a hardened marker fails at the position of that
\* marker, and the parse reads nothing past it; the failure is
\* GotHardenedAfterUnhardened whenever the marker is a glyph still accepted
\* at the end of a section.
C2_Amended ==
    \A j \in 1..Len(consumed) :
        (consumed[j] \in Markers /\ PrevSectionUnhardened(consumed, j))
        => ( /\ j = Len(consumed)
             /\ Raised(frame)
             /\ (frame.state = "SECTION_END"
                   /\ frame.c \in frame.accepted_hardened_markers)
                => ( /\ frame.exc = "GotHardenedAfterUnhardened"
                     /\ frame.exc_position = j ) )

\* parse has failed with GotHardenedAfterUnhardened on the marker of the
\* second section of the input.
C2_Witness ==
    /\ frame.exc = "GotHardenedAfterUnhardened"
    /\ PrevSectionUnhardened(consumed, Len(consumed))
    /\ frame.exc_position = Len(consumed)
    /\ Len(frame.sections) = 2

\* The ranges of a section list are each in order and within one half, each
\* section is in ascending order without overlap: the constructor has no
\* other complaint to make than about the order of hardened and unhardened.
WellFormedSections(secs) ==
    \A i \in 1..Len(secs) :
        /\ \A k \in 1..Len(secs[i]) :
              /\ WLe(secs[i][k][1], secs[i][k][2])
              /\ WGe(secs[i][k][1], HARDENED_INDEX_START)
                    <=> WGe(secs[i][k][2], HARDENED_INDEX_START)
              /\ WGe(secs[i][k][1], HARDENED_INDEX_START)
                    <=> WGe(secs[i][1][1], HARDENED_INDEX_START)
        /\ \A k \in 1..(Len(secs[i]) - 1) :
              WLt(secs[i][k][2], secs[i][k + 1][1])

\* C3: in every template parse returns and in every template the
\* constructor returns, no hardened section comes after an unhardened one;
\* the constructor answers an otherwise well-formed section list that has
\* one with GotHardenedAfterUnhardened; parse reports that error at the
\* position of the hardened marker it has just read.
C3_HardenedFirst ==
    /\ frame.returned => HardenedFirst(frame.result.sections)
    /\ built.exc = NoExc => HardenedFirst(built.tpl.sections)
    /\ ( /\ built # NotBuilt
         /\ WellFormedSections(args.sections)
         /\ ~HardenedFirst(args.sections) )
       => built.exc = "GotHardenedAfterUnhardened"
    /\ frame.exc = "GotHardenedAfterUnhardened"
       => ( /\ frame.exc_position = Len(consumed)
            /\ consumed[Len(consumed)] \in Markers
            /\ frame.c = consumed[Len(consumed)] )

\* The constructor has refused a well-formed list of two sections, the
\* first unhardened and the second hardened.
C3_Witness ==
    /\ built.exc = "GotHardenedAfterUnhardened"
    /\ Len(args.sections) = 2
    /\ WellFormedSections(args.sections)
    /\ IsUnhardened(args.sections[1]) /\ IsHardened(args.sections[2])

\* C4: parse("m/44'/0'/[0-5]'/0/*") with the default options returns a
\* template that is not partial and has the five sections 44', 0', [0-5]',
\* 0 and the full span; str() of it is the input.
C4_BoundaryExample ==
    (consumed \o pending = BoundaryExample /\ options = DefaultOptions)
    => /\ ~Raised(frame)
       /\ InputEnded =>
            /\ frame.returned
            /\ ~frame.result.is_partial
            /\ frame.result.sections =
                 << <<(<<W(1, 44), W(1, 44)>>)>>,
                    <<(<<W(1, 0), W(1, 0)>>)>>,
                    <<(<<W(1, 0), W(1, 5)>>)>>,
                    <<(<<N(0), N(0)>>)>>,
                    <<(<<N(0), MAX_INDEX_VALUE>>)>> >>
            /\ str(frame.result) = [exc |-> NoExc, s |-> BoundaryExample]

\* The whole example has been read and parse is over.
C4_Witness ==
    /\ consumed = BoundaryExample
    /\ options = DefaultOptions
    /\ InputEnded
    /\ frame.returned

\* C5 as stated: PathTooLong is raised only for an input that holds more
\* than max_sections sections.
C5_Claim ==
    frame.exc = "PathTooLong"
        => NumSectionsInText(consumed) > options.max_sections

\* The characters a section of the grammar can start with.
SectionOpeners ==
    Digits \cup (IF options.is_format_onlypath THEN {} ELSE {"[", "*"})

\* C6: sections never holds more than max_sections entries; a returned
\* template has between 1 and max_sections sections; and the first
\* character of section number max_sections + 1 (a digit, "[" or "*") is
\* where parse fails, with PathTooLong at that very position.
C6_SectionCap ==
    /\ Len(frame.sections) <= options.max_sections
    /\ frame.returned =>
          /\ Len(frame.result.sections) >= 1
          /\ Len(frame.result.sections) <= options.max_sections
    /\ \A k \in SectionStarts(consumed) :
          ( /\ Cardinality({i \in SectionStarts(consumed) : i <= k})
                  = options.max_sections + 1
            /\ consumed[k] \in SectionOpeners )
          => ( /\ Len(consumed) = k
               /\ frame.exc = "PathTooLong"
               /\ frame.exc_position = k )

\* parse has failed with PathTooLong on the "[" that opens one section more
\* than max_sections.
C6_Witness ==
    /\ frame.exc = "PathTooLong"
    /\ frame.c = "["
    /\ NumSectionsInText(consumed) = options.max_sections + 1
    /\ frame.exc_position = Len(consumed)

\* The ranges stored so far for the section being read.
StoredRanges ==
    IF frame.section_started THEN 0
    ELSE Len(frame.sections[Len(frame.sections)])

\* parse is between "[" and "]".
InBrackets ==
    /\ Running(frame)
    /\ \/ frame.state = "RANGE_WITHIN_SECTION"
       \/ frame.state = "VALUE" /\ frame.ret_state = "RANGE_WITHIN_SECTION"

\* C7: every section of a returned template holds between 1 and
\* max_ranges_per_section ranges; PathSectionTooLong is raised on a ","
\* read when max_ranges_per_section - 1 ranges are stored, at the position
\* of that ","; and between the brackets the number of stored ranges never
\* gets past max_ranges_per_section - 1, so the test cannot be stepped over.
C7_RangeCap ==
    /\ frame.returned =>
          \A i \in 1..Len(frame.result.sections) :
              /\ Len(frame.result.sections[i]) >= 1
              /\ Len(frame.result.sections[i]) <= options.max_ranges_per_section
    /\ frame.exc = "PathSectionTooLong" =>
          /\ frame.c = ","
          /\ consumed[Len(consumed)] = ","
          /\ frame.exc_position = Len(consumed)
          /\ StoredRanges = options.max_ranges_per_section - 1
    /\ InBrackets => StoredRanges <= options.max_ranges_per_section - 1

\* parse has failed with PathSectionTooLong on a "," that follows a stored
\* range and one more range.
C7_Witness ==
    /\ frame.exc = "PathSectionTooLong"
    /\ StoredRanges >= 1
    /\ frame.exc_position = Len(consumed)

\* C8: in a returned template every range has start <= end with both bounds
\* in one half of [0, 2^32), the ranges of a section are all in the same
\* half, and consecutive ranges (s1,e1), (s2,e2) have e1 + 1 < s2.
C8_Canonical ==
    frame.returned =>
        \A i \in 1..Len(frame.result.sections) :
            LET s == frame.result.sections[i] IN
            /\ \A k \in 1..Len(s) :
                  /\ WLe(s[k][1], s[k][2])
                  /\ s[k][1].hi \in {0, 1}
                  /\ s[k][2].hi = s[k][1].hi
                  /\ s[k][1].hi = s[1][1].hi
            /\ \A k \in 1..(Len(s) - 1) :
                  WLt(WAdd(s[k][2], N(1)), s[k + 1][1])

\* A template with a hardened section of two ranges has been returned.
C8_Witness ==
    /\ frame.returned
    /\ \E i \in 1..Len(frame.result.sections) :
          /\ Len(frame.result.sections[i]) = 2
          /\ IsHardened(frame.result.sections[i])

\* Every range of the list is in order and within one half, every section is
\* within one half, and no hardened section follows an unhardened one.
RangesFine(secs) ==
    /\ \A i \in 1..Len(secs) : \A k \in 1..Len(secs[i]) :
          /\ WLe(secs[i][k][1], secs[i][k][2])
          /\ WGe(secs[i][k][1], HARDENED_INDEX_START)
                <=> WGe(secs[i][k][2], HARDENED_INDEX_START)
          /\ WGe(secs[i][k][1], HARDENED_INDEX_START)
                <=> WGe(secs[i][1][1], HARDENED_INDEX_START)
    /\ HardenedFirst(secs)

\* Every pair of consecutive ranges the constructor looks at before the
\* pair (k, k + 1) of section i is strictly apart.
CleanBefore(secs, i, k) ==
    \A i2 \in 1..i : \A k2 \in 1..(Len(secs[i2]) - 1) :
        (i2 < i \/ k2 < k) => WLt(secs[i2][k2][2], secs[i2][k2 + 1][1])

\* C9 as stated: the constructor fails with RangesIntersect whenever two
\* consecutive ranges of a section overlap or are adjacent.
C9_Claim ==
    \A i \in 1..Len(args.sections) : \A k \in 1..(Len(args.sections[i]) - 1) :
        LET prev == args.sections[i][k]
            next == args.sections[i][k + 1]
        IN
        ( /\ built # NotBuilt
          /\ RangesFine(args.sections)
          /\ CleanBefore(args.sections, i, k)
          /\ \/ WLe(prev[1], next[2]) /\ WLe(next[1], prev[2])
             \/ WAdd(prev[2], N(1)) = next[1] )
        => built.exc = "RangesIntersect"

\* C10 as stated: the constructor fails with RangeOrderBad when a range of
\* a section starts below the start of the range before it.
C10_Claim ==
    \A i \in 1..Len(args.sections) : \A k \in 1..(Len(args.sections[i]) - 1) :
        LET prev == args.sections[i][k]
            next == args.sections[i][k + 1]
        IN
        ( /\ built # NotBuilt
          /\ RangesFine(args.sections)
          /\ CleanBefore(args.sections, i, k)
          /\ WLt(next[1], prev[1]) )
        => built.exc = "RangeOrderBad"


\* C11: a template parse returns passes the validation of the constructor:
\* BIP32Template(t.sections, is_partial=t.is_partial) raises nothing and
\* the template it makes is equal (__eq__) to t.
C11_ParsedPassesCtor ==
    frame.returned =>
        LET made == BIP32Template(frame.result.sections,
                                  frame.result.is_partial, "", FALSE)
        IN  /\ made.exc = NoExc
            /\ eq(made.tpl, frame.result)

\* parse has returned a template of a hardened section of two ranges
\* followed by an unhardened section, or one whose section has two ranges.
C11_Witness ==
    /\ frame.returned
    /\ frame.result.hardened_marker # ""
    /\ \/ /\ Len(frame.result.sections) = 2
          /\ IsHardened(frame.result.sections[1])
          /\ IsUnhardened(frame.result.sections[2])
       \/ Len(frame.result.sections[1]) = 2

\* Bound on the length of the paths match is asked about exhaustively.
MaxPathLen == 2

\* v lies within one of the ranges of section s, bounds included.
InSection(s, v) ==
    \E k \in 1..Len(s) : WLe(s[k][1], v) /\ WLe(v, s[k][2])

\* The same index with its hardening bit flipped.
Flip(x) == W(1 - x.hi, x.lo)

\* The values paths are made of: the bounds of the ranges of t, the values
\* next to them, the bounds with the hardening bit flipped, and 0.
PathValues(t) ==
    {N(0), HARDENED_INDEX_START}
    \cup UNION {UNION {{t.sections[i][k][1], t.sections[i][k][2],
                        WAdd(t.sections[i][k][1], N(1)),
                        WAdd(t.sections[i][k][2], N(1)),
                        Flip(t.sections[i][k][1])} :
                          k \in 1..Len(t.sections[i])} :
                  i \in 1..Len(t.sections)}

\* The path of the first start of every section.
StartsPath(t) == [i \in 1..Len(t.sections) |-> t.sections[i][1][1]]

\* The templates at hand: the one parse returned, the one the constructor
\* made.
Subjects ==
    (IF frame.returned THEN {frame.result} ELSE {})
    \cup (IF built.exc = NoExc THEN {built.tpl} ELSE {})

\* C12: match(path) is true exactly when path has as many components as
\* the template has sections and every component lies, bounds included,
\* within a range of its section; so for a parsed template the path of the
\* section starts with one component replaced by the value just past the
\* end of a range of its section, or by a bound with the hardening bit
\* flipped, is not matched.
C12_Match ==
    /\ \A t \in Subjects :
         /\ \A n \in 0..MaxPathLen : \A path \in [1..n -> PathValues(t)] :
               match(t, path)
                  <=> /\ Len(path) = Len(t.sections)
                      /\ \A i \in 1..n : InSection(t.sections[i], path[i])
         /\ (\A i \in 1..Len(t.sections) : t.sections[i] # <<>>)
            => /\ \A i \in 1..Len(t.sections) : \A v \in PathValues(t) :
                     match(t, [StartsPath(t) EXCEPT ![i] = v])
                        <=> InSection(t.sections[i], v)
               /\ ~match(t, Append(StartsPath(t), N(0)))
               /\ ~match(t, Tail(StartsPath(t)))
    /\ frame.returned =>
         LET t == frame.result IN
         \A i \in 1..Len(t.sections) : \A k \in 1..Len(t.sections[i]) :
            /\ ~match(t, [StartsPath(t) EXCEPT
                            ![i] = WAdd(t.sections[i][k][2], N(1))])
            /\ ~match(t, [StartsPath(t) EXCEPT
                            ![i] = Flip(t.sections[i][k][1])])
            /\ match(t, [StartsPath(t) EXCEPT ![i] = t.sections[i][k][2]])

\* parse has returned a template with a section of two ranges: the start of
\* the second range is matched and the value past the end of the first is
\* not.
C12_Witness ==
    /\ frame.returned
    /\ Len(frame.result.sections[1]) = 2
    /\ match(frame.result, <<frame.result.sections[1][2][1]>>)
    /\ ~match(frame.result,
              <<WAdd(frame.result.sections[1][1][2], N(1))>>)


\* Every section is exactly one range with start == end.
AllSingle(t) ==
    \A i \in 1..Len(t.sections) :
        Len(t.sections[i]) = 1 /\ t.sections[i][1][1] = t.sections[i][1][2]

\* C13: to_path() of a parsed template (and of a constructed one with no
\* empty section) never raises; it returns the list of the section starts
\* when every section is one range with start == end, and None in every
\* other case.
C13_ToPath ==
    \A t \in Subjects :
        (\A i \in 1..Len(t.sections) : t.sections[i] # <<>>)
        => /\ to_path(t).exc = NoExc
           /\ AllSingle(t) => /\ ~to_path(t).none
                               /\ to_path(t).path = StartsPath(t)
           /\ ~AllSingle(t) => to_path(t).none

\* parse has returned a template whose only section is a span, and to_path
\* gives None for it.
C13_Witness ==
    /\ frame.returned
    /\ Len(frame.result.sections) = 1
    /\ Len(frame.result.sections[1]) = 1
    /\ frame.result.sections[1][1][1] # frame.result.sections[1][1][2]
    /\ to_path(frame.result).exc = NoExc
    /\ to_path(frame.result).none

\* The section list of one concrete path: one section [(p_i, p_i)] per
\* component.
SectionsOfPath(p) == [i \in 1..Len(p) |-> <<(<<p[i], p[i]>>)>>]

\* C14: when to_path() of a parsed template t returns a path p, t matches
\* p, and the template constructed from the sections [(p_i, p_i)] with the
\* is_partial and hardened_marker of t is equal to t, keeps the marker of t
\* and has to_path() == p.
C14_PathRoundTrip ==
    (frame.returned /\ ~to_path(frame.result).none)
    => LET t == frame.result
           p == to_path(t).path
           made == BIP32Template(SectionsOfPath(p), t.is_partial,
                                 t.hardened_marker, FALSE)
       IN  /\ match(t, p)
           /\ made.exc = NoExc
           /\ eq(made.tpl, t)
           /\ made.tpl.hardened_marker = t.hardened_marker
           /\ to_path(made.tpl) = [exc |-> NoExc, none |-> FALSE, path |-> p]

\* parse has returned a partial template of two sections, the first of
\* them hardened, that to_path turns into a path.
C14_Witness ==
    /\ frame.returned
    /\ frame.result.is_partial
    /\ Len(frame.result.sections) = 2
    /\ IsHardened(frame.result.sections[1])
    /\ ~to_path(frame.result).none
    /\ Len(to_path(frame.result).path) = 2


\* The examples of the adjacency rule.
AdjacentExample == <<"[","0","-","2",",","3","-","5","]">>
MergedExample == <<"[","0","-","5","]">>

\* The range the characters read since the last "[" or "," spell: the one
\* finalize_range would make of range_start and index_value.
PendingRange(L) ==
    IF L.range_start # INVALID_INDEX
    THEN <<L.range_start, L.index_value>>
    ELSE <<L.index_value, L.index_value>>

\* Between the brackets, the pending range is a single index or has
\* start < end, and it starts one past the end of the range stored last
\* for the section.
AdjacentPending(L) ==
    /\ Running(L)
    /\ L.state = "VALUE" /\ L.ret_state = "RANGE_WITHIN_SECTION"
    /\ L.index_value # INVALID_INDEX
    /\ ~L.section_started
    /\ L.range_start # INVALID_INDEX => WLt(L.range_start, L.index_value)
    /\ WAdd(Last(Last(L.sections))[2], N(1)) = PendingRange(L)[1]

\* A step of parse that reads "," or "]" after an adjacent range; the cap
\* on the ranges of a section, which a "," tests first, is not reached.
AdjacentFinalized ==
    /\ AdjacentPending(frame)
    /\ frame' # frame
    /\ frame'.c \in {",", "]"}
    /\ frame'.c = "," =>
          Len(Last(frame.sections)) # options.max_ranges_per_section - 1

\* A step of parse that closes a section whose last range, finalized by
\* "]", is adjacent to the range stored before it.
AdjacentApplied ==
    /\ Running(frame) /\ frame.state = "SECTION_END"
    /\ ~frame.section_started
    /\ frame.range_end # INVALID_INDEX
    /\ WAdd(Last(Last(frame.sections))[2], N(1)) = frame.range_start
    /\ frame' # frame
    /\ ~Raised(frame')

\* C15: when "," or "]" finalizes a range that starts one past the end of
\* the range before it, parse without is_format_unambiguous goes on with no
\* error and the range is stored merged into the range before it (at the
\* "," itself, or when the section is closed after "]"); with
\* is_format_unambiguous parse fails with RangeStartNextToPrevious at the
\* position of that "," or "]".  With the default options "[0-2,3-5]" gives
\* the template "[0-5]" gives; with is_format_unambiguous it fails at its
\* "]".
C15_Adjacency ==
    [][ /\ AdjacentFinalized =>
           LET prev == Last(Last(frame.sections))
               pend == PendingRange(frame)
               n == Len(frame.sections)
           IN
           IF options.is_format_unambiguous
           THEN /\ frame'.exc = "RangeStartNextToPrevious"
                /\ frame'.exc_position = Len(consumed')
                /\ consumed'[Len(consumed')] = frame'.c
           ELSE /\ ~Raised(frame')
                /\ frame'.c = "," =>
                      /\ Len(frame'.sections[n]) = Len(frame.sections[n])
                      /\ Last(frame'.sections[n]) = <<prev[1], pend[2]>>
                /\ frame'.c = "]" =>
                      /\ frame'.sections = frame.sections
                      /\ <<frame'.range_start, frame'.range_end>> = pend
        /\ AdjacentApplied =>
           LET prev == Last(Last(frame.sections))
               n == Len(frame.sections)
               low == prev[1]
               high == frame.range_end
               hardened == frame'.c \in Markers
           IN
           /\ ~options.is_format_unambiguous
           /\ Len(frame'.sections[n]) = Len(frame.sections[n])
           /\ Masked(Last(frame'.sections[n])[1]) = Masked(low)
           /\ Masked(Last(frame'.sections[n])[2]) = Masked(high)
        /\ (consumed' = AdjacentExample /\ frame'.position = Len(consumed') + 1
              /\ options = DefaultOptions)
           => /\ frame'.returned
              /\ frame'.result = parse(MergedExample, options).result
              /\ frame'.result.sections = << <<(<<N(0), N(5)>>)>> >>
        /\ (consumed' \o pending' = AdjacentExample
              /\ options.is_format_unambiguous
              /\ frame'.position >= Len(AdjacentExample))
           => /\ frame'.exc = "RangeStartNextToPrevious"
              /\ frame'.exc_position = Len(AdjacentExample)
      ]_vars

\* parse without is_format_unambiguous has returned a template for an
\* input with "," whose section is one merged range.
C15_Witness ==
    /\ frame.returned
    /\ ~options.is_format_unambiguous
    /\ \E i \in 1..Len(consumed) : consumed[i] = ","
    /\ Len(frame.result.sections) = 1
    /\ Len(frame.result.sections[1]) = 1
    /\ WLt(frame.result.sections[1][1][1], frame.result.sections[1][1][2])


SectionNumber(t, k) == Cardinality({i \in SectionStarts(t) : i <= k})

\* Between the brackets, the pending range is 0-MAX_INDEX_VALUE.
WildcardPending(L) ==
    /\ Running(L)
    /\ L.state = "VALUE" /\ L.ret_state = "RANGE_WITHIN_SECTION"
    /\ L.range_start = N(0)
    /\ L.index_value = MAX_INDEX_VALUE

\* C17: where "[" and "*" are part of the syntax, a "*" read at the start
\* of a section within max_sections is accepted as the range
\* (0, MAX_INDEX_VALUE); in the template returned the section is that single
\* range, or (2^31, 2^32 - 1) when a hardened marker follows the "*"; and
\* the range 0-MAX_INDEX_VALUE written between brackets makes parse fail
\* with RangeEqualsWildcard at the position of the "," or "]" after it,
\* the only place that error is raised.
C17_Wildcard ==
    [][ /\ ( /\ frame' # frame
             /\ frame'.c = "*"
             /\ Len(consumed') \in SectionStarts(consumed')
             /\ ~options.is_format_onlypath
             /\ NumSectionsInText(consumed') <= options.max_sections )
           => /\ ~Raised(frame')
              /\ frame'.state = "SECTION_END"
              /\ <<frame'.range_start, frame'.index_value>>
                    = <<N(0), MAX_INDEX_VALUE>>
        /\ frame'.returned =>
             \A k \in SectionStarts(consumed') :
                consumed'[k] = "*" =>
                   frame'.result.sections[SectionNumber(consumed', k)] =
                      IF k < Len(consumed') /\ consumed'[k + 1] \in Markers
                      THEN <<(<<HARDENED_INDEX_START, W(1, LoMax)>>)>>
                      ELSE <<(<<N(0), MAX_INDEX_VALUE>>)>>
        /\ ( /\ WildcardPending(frame)
             /\ frame' # frame
             /\ frame'.c \in {",", "]"}
             /\ frame'.c = "," =>
                   StoredRanges # options.max_ranges_per_section - 1 )
           => /\ frame'.exc = "RangeEqualsWildcard"
              /\ frame'.exc_position = Len(consumed')
        /\ (frame'.exc = "RangeEqualsWildcard" /\ frame' # frame)
           => /\ WildcardPending(frame)
              /\ frame'.c \in {",", "]"}
              /\ frame'.exc_position = Len(consumed')
      ]_vars

\* parse has returned a template for an input that has "*" followed by a
\* hardened marker.
C17_Witness ==
    /\ frame.returned
    /\ \E k \in SectionStarts(consumed) :
          /\ consumed[k] = "*"
          /\ k < Len(consumed) /\ consumed[k + 1] \in Markers
          /\ frame.result.sections[SectionNumber(consumed, k)] =
                <<(<<HARDENED_INDEX_START, W(1, LoMax)>>)>>


\* C18 as stated: parse("m/2147483648") fails with IndexTooBig at the
\* position one past the last digit.
C18_Original ==
    (consumed \o pending = TooBigExample /\ Raised(frame))
    => /\ frame.exc = "IndexTooBig"
       /\ frame.exc_position = Len(TooBigExample) + 1

\* C18 amended: parse("m/2147483648") reads its twelve characters and fails
\* on the last of them with IndexTooBig, reported at the position of that
\* digit (12, the length of the input); in general IndexTooBig is reported
\* at the position of the digit that takes the value read so far past
\* MAX_INDEX_VALUE, the last character read.
C18_Amended ==
    /\ consumed \o pending = TooBigExample
       => IF Len(consumed) < Len(TooBigExample) THEN ~Raised(frame)
          ELSE /\ frame.exc = "IndexTooBig"
               /\ frame.exc_position = Len(TooBigExample)
               /\ frame.position = Len(TooBigExample)
    /\ frame.exc = "IndexTooBig"
       => /\ frame.exc_position = Len(consumed)
          /\ frame.c = consumed[Len(consumed)]
          /\ isdigit(frame.c)
          /\ WLe(frame.index_value, MAX_INDEX_VALUE)
          /\ WGt(WAdd(WMul10(frame.index_value), N(DigitValue(frame.c))),
                 MAX_INDEX_VALUE)

\* parse("m/2147483648") has failed with IndexTooBig at position 12.
C18_Witness ==
    /\ consumed = TooBigExample
    /\ frame.exc = "IndexTooBig"
    /\ frame.exc_position = 12


\* A decimal number of the text t starts at position i.
NumberStart(t, i) ==
    /\ i \in 1..Len(t)
    /\ isdigit(t[i])
    /\ i = 1 \/ ~isdigit(t[i - 1])

\* Position i of the text t is a place where the grammar has an index: the
\* start of a section, of a range, or of the end of a range.
IndexPlace(t, i) ==
    \/ i = BodyStart(t)
    \/ i > BodyStart(t) /\ t[i - 1] \in {"/", "[", "-", ","}

\* The character at the end of consumed is the one parse has just
\* processed (not the end of the input).
JustRead == consumed # <<>> /\ frame.position = Len(consumed)

\* C19: wherever a decimal index is read (plain section, start or end of a
\* range), a "0" that starts a number and is followed by a digit makes
\* parse fail with IndexHasLeadingZero at the position of that second
\* digit, and that error is raised nowhere else; a "0" that starts a number
\* is read as index 0; and index_value is INVALID_INDEX ('no value')
\* whenever a new index is about to be read, so a 0 left from an earlier
\* index does not raise the error.
C19_LeadingZero ==
    /\ \A i \in 2..Len(consumed) :
          ( /\ NumberStart(consumed, i - 1)
            /\ consumed[i - 1] = "0"
            /\ isdigit(consumed[i]) )
          => /\ i = Len(consumed)
             /\ frame.exc = "IndexHasLeadingZero"
             /\ frame.exc_position = i
    /\ frame.exc = "IndexHasLeadingZero"
          => /\ frame.exc_position = Len(consumed)
             /\ Len(consumed) >= 2
             /\ isdigit(consumed[Len(consumed)])
             /\ consumed[Len(consumed) - 1] = "0"
             /\ NumberStart(consumed, Len(consumed) - 1)
    /\ ( /\ JustRead
         /\ IndexPlace(consumed, Len(consumed))
         /\ consumed[Len(consumed)] = "0" )
          => /\ frame.exc \in {NoExc, "PathTooLong"}
             /\ frame.exc = NoExc => frame.index_value = N(0)
             /\ frame.exc = "PathTooLong"
                   => Len(frame.sections) = options.max_sections
    /\ ( /\ Running(frame)
         /\ consumed # <<>> => ~isdigit(consumed[Len(consumed)])
         /\ frame.state \in {"SECTION_START", "VALUE", "NEXT_SECTION"} )
          => frame.index_value = INVALID_INDEX
    /\ frame.returned =>
          \A k \in SectionStarts(consumed) :
             (consumed[k] = "0" /\ SectionLast(consumed, k) = k)
             => frame.result.sections[SectionNumber(consumed, k)]
                   = <<(<<N(0), N(0)>>)>>

\* parse has failed with IndexHasLeadingZero on the second digit of the end
\* of a range, after a range start of 0 had been read.
C19_Witness ==
    /\ frame.exc = "IndexHasLeadingZero"
    /\ Len(consumed) >= 5
    /\ consumed[Len(consumed) - 2] = "-"
    /\ consumed[Len(consumed) - 3] = "0"
    /\ frame.range_start = N(0)


\* The hardened-marker glyphs of the text t.
UsedMarkers(t) == {t[i] : i \in {j \in 1..Len(t) : t[j] \in Markers}}

\* Position j of the text t lies after a "[" that no "]" has closed yet.
InOpenBracket(t, j) ==
    \E k \in 1..(j - 1) :
        t[k] = "[" /\ \A l \in (k + 1)..(j - 1) : t[l] # "]"

\* Position j of the text t is the end of a section: it follows "]", "*" or
\* the index of a section written without brackets.
ClosesSection(t, j) ==
    /\ j > 1
    /\ \/ t[j - 1] \in {"]", "*"}
       \/ isdigit(t[j - 1]) /\ ~InOpenBracket(t, j)

\* C20: once a hardened-marker glyph has been accepted, the other glyph of
\* hardened_markers read at the end of a later section makes parse fail
\* with UnexpectedHardenedMarker at the position of that glyph, and (with
\* the default markers) parse raises that error only there; so the input
\* of a returned template uses at most one glyph, hardened_marker is that
\* glyph, and hardened_marker is empty exactly when no section is hardened.
C20_MarkerLockIn ==
    /\ \A i \in 1..Len(consumed) : \A j \in (i + 1)..Len(consumed) :
          ( /\ consumed[i] \in Markers
            /\ consumed[j] \in Markers \ {consumed[i]}
            /\ ClosesSection(consumed, j) )
          => /\ j = Len(consumed)
             /\ frame.exc = "UnexpectedHardenedMarker"
             /\ frame.exc_position = j
    /\ ( /\ frame.exc = "UnexpectedHardenedMarker"
         /\ options.hardened_markers = HARDENED_MARKERS )
          => /\ frame.exc_position = Len(consumed)
             /\ frame.c = consumed[Len(consumed)]
             /\ frame.c \in Markers \ frame.accepted_hardened_markers
             /\ \E i \in 1..(Len(consumed) - 1) :
                   consumed[i] \in Markers \ {frame.c}
    /\ frame.returned
          => /\ Cardinality(UsedMarkers(consumed)) <= 1
             /\ \A g \in UsedMarkers(consumed) :
                   frame.result.hardened_marker = g
             /\ UsedMarkers(consumed) = {}
                   => frame.result.hardened_marker = ""
             /\ frame.result.hardened_marker = ""
                   <=> \A i \in 1..Len(frame.result.sections) :
                          ~IsHardened(frame.result.sections[i])

\* parse has failed with UnexpectedHardenedMarker on the glyph that closes
\* the second section, the first section being closed with the other glyph.
C20_Witness ==
    /\ frame.exc = "UnexpectedHardenedMarker"
    /\ frame.exc_position = Len(consumed)
    /\ Len(frame.sections) = 1
    /\ \E i \in 1..(Len(consumed) - 1) :
          consumed[i] \in Markers \ {consumed[Len(consumed)]}


\* C21 as stated: every error parse raises carries a position p, the
\* 1-based index of the character being processed when it was raised
\* (the end of the input counting as one more character), so
\* 1 <= p <= len(input) + 1; no failure of parse lacks a position.
C21_Claim ==
    Raised(frame)
    => /\ frame.exc_position # NoPosition
       /\ frame.exc_position = frame.position
       /\ 1 <= frame.exc_position
       /\ frame.exc_position <= Len(consumed) + 1


\* The options with is_format_onlypath set to b.
WithOnlyPath(b) == [options EXCEPT !.is_format_onlypath = b]

\* What a call of parse came to: the error and its position, or the
\* template returned.
Outcome(L) ==
    [exc |-> L.exc, exc_position |-> L.exc_position,
     returned |-> L.returned, result |-> L.result]

\* The text t has neither "[" nor "*".
ConcreteText(t) == \A i \in 1..Len(t) : t[i] \notin {"[", "*"}

\* C22: for an input with neither "[" nor "*", parse with
\* is_format_onlypath and parse without it come to the same outcome: the
\* same error at the same position, or the same template.
C22_ModeIndependence ==
    (~Running(frame) /\ ConcreteText(consumed))
    => Outcome(parse(consumed, WithOnlyPath(~options.is_format_onlypath)))
          = Outcome(frame)

\* parse with is_format_onlypath has returned a template of two sections
\* for an input that has a hardened marker.
C22_Witness ==
    /\ options.is_format_onlypath
    /\ frame.returned
    /\ ConcreteText(consumed)
    /\ Len(frame.result.sections) = 2
    /\ frame.result.hardened_marker # ""


\* C23: an input parse accepts without is_format_onlypath is accepted with
\* it exactly when to_path() of the template is not None, and the template
\* returned then is equal; to_path() of a template parse returns with
\* is_format_onlypath is never None.
C23_OnlyPathConcrete ==
    /\ (frame.returned /\ ~options.is_format_onlypath)
       => LET again == parse(consumed, WithOnlyPath(TRUE)) IN
          /\ to_path(frame.result).exc = NoExc
          /\ again.returned <=> ~to_path(frame.result).none
          /\ again.returned => /\ eq(again.result, frame.result)
                               /\ eq(frame.result, again.result)
    /\ (frame.returned /\ options.is_format_onlypath)
       => /\ to_path(frame.result).exc = NoExc
          /\ ~to_path(frame.result).none

\* parse without is_format_onlypath has returned a template of two
\* sections for an input with "*" or "[", one with to_path() None, which
\* parse with is_format_onlypath refuses.
C23_Witness ==
    /\ frame.returned
    /\ ~options.is_format_onlypath
    /\ ~ConcreteText(consumed)
    /\ Len(frame.result.sections) = 2
    /\ to_path(frame.result).none
    /\ Raised(parse(consumed, WithOnlyPath(TRUE)))


\* C24: a returned template has is_partial false exactly when the first
\* character of the input is "m"; after a first "m" anything but "/" makes
\* parse fail at position 2, with UnexpectedFinish when the input is just
\* "m"; an "m" at a later position makes parse fail there; and "m/" alone
\* fails with PathEmpty at position 3.
C24_RootPrefix ==
    /\ frame.returned
          => (~frame.result.is_partial <=> consumed[1] = "m")
    /\ (consumed # <<>> /\ consumed[1] = "m")
          => /\ ~frame.is_partial
             /\ (Len(consumed) >= 2 /\ consumed[2] # "/")
                   => /\ Len(consumed) = 2
                      /\ Raised(frame)
                      /\ frame.exc # "AssertionError"
                      /\ frame.exc_position = 2
             /\ (Len(consumed) = 1 /\ InputEnded)
                   => /\ frame.exc = "UnexpectedFinish"
                      /\ frame.exc_position = 2
             /\ (Len(consumed) = 2 /\ consumed[2] = "/" /\ InputEnded)
                   => /\ frame.exc = "PathEmpty"
                      /\ frame.exc_position = 3
    /\ (consumed # <<>> /\ consumed[1] # "m") => frame.is_partial
    /\ \A i \in 2..Len(consumed) :
          consumed[i] = "m"
          => /\ i = Len(consumed)
             /\ Raised(frame)
             /\ frame.exc # "AssertionError"
             /\ frame.exc_position = i

\* parse("m/") has failed with PathEmpty at position 3.
C24_Witness ==
    /\ consumed = <<"m", "/">>
    /\ InputEnded
    /\ frame.exc = "PathEmpty"
    /\ frame.exc_position = 3


\* What the input may go on with after the characters read so far.
Extensions ==
    {<<>>, <<"0">>, <<"/", "1">>}

C26_Termination ==
    /\ frame.position <= Len(consumed) + 1
    /\ Running(frame) => frame.position = Len(consumed)
    /\ InputEnded => /\ ~Running(frame)
                     /\ frame.returned # Raised(frame)
                     /\ frame.exc # "AssertionError"
    /\ frame.returned => /\ InputEnded
                         /\ frame.c = None
                         /\ frame.new_state = "SUCCESS"
                         /\ ~Raised(frame)
    /\ (JustRead /\ ~Raised(frame)) => frame.new_state # "SUCCESS"

\* parse has returned a template in its sixth iteration or later.
C26_Witness ==
    /\ frame.returned
    /\ InputEnded
    /\ frame.position >= 6
    /\ frame.position = Len(consumed) + 1


\* The entry of a bracketed list that ends just before position j of the
\* text t is written with a dash, "a-a", its start and its end the same
\* digits.
DashEqualEntry(t, j) ==
    \E k \in 1..(j - 1) : \E d \in (k + 2)..(j - 2) :
        /\ t[k] \in {"[", ","}
        /\ t[d] = "-"
        /\ \A l \in ((k + 1)..(d - 1)) \cup ((d + 1)..(j - 1)) : isdigit(t[l])
        /\ SubSeq(t, k + 1, d - 1) = SubSeq(t, d + 1, j - 1)

\* C27: the "," or "]" read after a range written "a-a" makes parse fail
\* with RangeStartEqualsEnd, also when the range is the only entry of its
\* list (a "," that meets the cap on the ranges of a section fails with
\* PathSectionTooLong before the range is looked at).
C27_DashSingleIndex ==
    ( /\ JustRead
      /\ consumed[Len(consumed)] \in {",", "]"}
      /\ DashEqualEntry(consumed, Len(consumed))
      /\ frame.exc # "PathSectionTooLong" )
    => frame.exc = "RangeStartEqualsEnd"


\* The section of the text t that starts at position k is written "*".
WrittenAsStar(t, k) == k \in 1..Len(t) /\ t[k] = "*"

\* The k-th section start of the text t, in the order of the text.
NthSectionStart(t, k) ==
    CHOOSE i \in SectionStarts(t) : SectionNumber(t, i) = k

FullSpan(section) ==
    \/ section = <<(<<N(0), MAX_INDEX_VALUE>>)>>
    \/ section = <<(<<HARDENED_INDEX_START, W(1, LoMax)>>)>>

\* C28: in a template parse has returned, a section that spans the whole
\* unhardened or the whole hardened half of the index space was written
\* "*" in the input.
C28_FullSpanOnlyFromStar ==
    frame.returned =>
        \A k \in 1..Len(frame.result.sections) :
            FullSpan(frame.result.sections[k])
                => WrittenAsStar(consumed, NthSectionStart(consumed, k))


\* The template t has a hardened section.
HasHardenedSection(t) ==
    \E i \in 1..Len(t.sections) :
        t.sections[i] # <<>> /\ HardenedBit(t.sections[i][1][1])

\* C29: str() of a template that parse has returned or the constructor has
\* accepted returns a string, no assertion of __str__ failing; a template
\* with a hardened section has a non-empty hardened_marker.
C29_StrTotal ==
    \A t \in Subjects :
        /\ str(t).exc = NoExc
        /\ HasHardenedSection(t) => t.hardened_marker # ""


\* Both bounds of the range r lie in the same half of the index space.
SameHalf(r) == HardenedBit(r[1]) = HardenedBit(r[2])

\* C30: no assertion of parse fails.  parse never ends with an
\* AssertionError, and the facts the assertions test hold whenever parse
\* is about to read on: range_start and range_end, when set, are at most
\* MAX_INDEX; a range_end that is set equals index_value; in SECTION_END,
\* also when it is the state VALUE returns to, index_value is a real value
\* once a character of the section has been read; in NEXT_SECTION
\* ret_state is None and index_value is INVALID_INDEX; VALUE has a state
\* to return to, which is never VALUE; the ranges stored for a section
\* all lie in the same half of the index space.
C30_NoAssertionFails ==
    /\ frame.exc # "AssertionError"
    /\ frame.ret_state # "VALUE"
    /\ Running(frame) =>
         /\ frame.range_start # INVALID_INDEX
              => WLe(frame.range_start, MAX_INDEX_VALUE)
         /\ frame.range_end # INVALID_INDEX
              => /\ WLe(frame.range_end, MAX_INDEX_VALUE)
                 /\ frame.range_end = frame.index_value
         /\ frame.state = "SECTION_END" => frame.index_value # INVALID_INDEX
         /\ frame.state = "NEXT_SECTION"
              => frame.ret_state = None /\ frame.index_value = INVALID_INDEX
         /\ frame.state = "VALUE" => frame.ret_state # None
         /\ (frame.state = "VALUE" /\ frame.ret_state = "SECTION_END")
              => frame.index_value # INVALID_INDEX
         /\ \A i \in 1..Len(frame.sections) :
              /\ frame.sections[i] # <<>>
              /\ \A k \in 1..Len(frame.sections[i]) :
                   /\ SameHalf(frame.sections[i][k])
                   /\ HardenedBit(frame.sections[i][k][1])
                        = HardenedBit(frame.sections[i][1][1])

\* parse has returned a template of two sections with a hardened one: it
\* has been through SECTION_END, NEXT_SECTION, finalize_range,
\* apply_new_range, is_section_hardened and harden_last_section.
C30_Witness ==
    /\ frame.returned
    /\ Len(frame.result.sections) = 2
    /\ HasHardenedSection(frame.result)

=============================================================================
